---------------------------- MODULE Spec2Model ----------------------------
(***************************************************************************)
(* Si5351 quadrature VFO driver (src/si5351/si5351.cpp, si5351.h).         *)
(*                                                                         *)
(* The model keeps the driver's own state (_xtal, _vfo[2]), the one chip   *)
(* register the driver ever reads back (SI_CLK_OE), and the I2C traffic    *)
(* of the most recent public call.  C integers wider than 31 bits and the  *)
(* IEEE-754 doubles of _evaluate/_setMSN are computed exactly, on numbers   *)
(* held as little-endian sequences of 15-bit limbs.                        *)
(***************************************************************************)
EXTENDS Integers, Sequences, FiniteSets, TLC

(***************************************************************************)
(* Wide naturals: uint64_t values and double significands.                 *)
(***************************************************************************)
Base == 2^15

RECURSIVE W(_)
\* the wide number of a natural n < 2^31
W(n) == IF n = 0 THEN <<>> ELSE <<n % Base>> \o W(n \div Base)

RECURSIVE WStrip(_)
\* drop the high-order zero limbs
WStrip(a) ==
    IF a = <<>> THEN a
    ELSE IF a[Len(a)] = 0 THEN WStrip(SubSeq(a, 1, Len(a) - 1)) ELSE a

RECURSIVE WAddC(_, _, _)
WAddC(a, b, c) ==
    IF a = <<>> /\ b = <<>> THEN (IF c = 0 THEN <<>> ELSE <<c>>)
    ELSE LET x == IF a = <<>> THEN 0 ELSE Head(a)
             y == IF b = <<>> THEN 0 ELSE Head(b)
             s == x + y + c
         IN  <<s % Base>> \o WAddC(IF a = <<>> THEN a ELSE Tail(a),
                                   IF b = <<>> THEN b ELSE Tail(b),
                                   s \div Base)

WAdd(a, b) == WAddC(a, b, 0)

RECURSIVE WSubB(_, _, _)
WSubB(a, b, br) ==
    IF a = <<>> THEN <<>>
    ELSE LET y == IF b = <<>> THEN 0 ELSE Head(b)
             s == Head(a) - y - br
         IN  <<s % Base>> \o WSubB(Tail(a),
                                   IF b = <<>> THEN b ELSE Tail(b),
                                   IF s < 0 THEN 1 ELSE 0)

\* a - b for a >= b
WSub(a, b) == WStrip(WSubB(a, b, 0))

RECURSIVE WMulSmallC(_, _, _)
WMulSmallC(a, k, c) ==
    IF a = <<>> THEN W(c)
    ELSE LET s == Head(a) * k + c
         IN  <<s % Base>> \o WMulSmallC(Tail(a), k, s \div Base)

\* a * k for a limb-sized k (k < 2^15)
WMulSmall(a, k) == IF k = 0 THEN <<>> ELSE WMulSmallC(a, k, 0)

RECURSIVE WMul(_, _)
WMul(a, b) ==
    IF b = <<>> \/ a = <<>> THEN <<>>
    ELSE WAdd(WMulSmall(a, Head(b)),
              LET r == WMul(a, Tail(b)) IN IF r = <<>> THEN r ELSE <<0>> \o r)

RECURSIVE IntBitLen(_)
IntBitLen(n) == IF n = 0 THEN 0 ELSE 1 + IntBitLen(n \div 2)

WBitLen(a) == IF a = <<>> THEN 0 ELSE 15 * (Len(a) - 1) + IntBitLen(a[Len(a)])

\* bit i (bit 0 the lowest) of a
WBit(a, i) ==
    LET j == (i \div 15) + 1
    IN  IF j > Len(a) THEN 0 ELSE (a[j] \div 2^(i % 15)) % 2

RECURSIVE WShrSmallC(_, _, _)
\* the limbs of a, high to low, shifted right by k < 15; c is the carry in
WShrSmallC(a, k, c) ==
    IF a = <<>> THEN <<>>
    ELSE LET h == a[Len(a)]
         IN  WShrSmallC(SubSeq(a, 1, Len(a) - 1), k, h % 2^k)
             \o <<c * 2^(15 - k) + h \div 2^k>>

\* a >> k
WShr(a, k) ==
    LET j == k \div 15
    IN  IF j >= Len(a) THEN <<>>
        ELSE WStrip(WShrSmallC(SubSeq(a, j + 1, Len(a)), k % 15, 0))

\* a << k
WShl(a, k) ==
    IF a = <<>> THEN a
    ELSE [i \in 1..(k \div 15) |-> 0] \o WMulSmall(a, 2^(k % 15))

\* a mod 2^k
WLow(a, k) == WSub(a, WShl(WShr(a, k), k))

RECURSIVE WInt(_)
\* the value of a, for a < 2^31
WInt(a) == IF a = <<>> THEN 0 ELSE Head(a) + Base * WInt(Tail(a))

RECURSIVE WCmpFrom(_, _, _)
WCmpFrom(a, b, i) ==
    IF i = 0 THEN 0
    ELSE IF a[i] < b[i] THEN -1
    ELSE IF a[i] > b[i] THEN 1
    ELSE WCmpFrom(a, b, i - 1)

\* -1, 0, 1 as a < b, a = b, a > b
WCmp(a, b) ==
    IF Len(a) < Len(b) THEN -1
    ELSE IF Len(a) > Len(b) THEN 1
    ELSE WCmpFrom(a, b, Len(a))

WLe(a, b) == WCmp(a, b) <= 0

(***************************************************************************)
(* IEEE-754 binary64 values >= 0.  [m, e] stands for m * 2^e, where m is   *)
(* odd and below 2^53, or m = 0 and e = 0: every value has one form.  The  *)
(* driver's doubles stay far from the subnormal and the overflow range.    *)
(***************************************************************************)
RECURSIVE IntTrailingZeros(_)
IntTrailingZeros(n) == IF n % 2 = 1 THEN 0 ELSE 1 + IntTrailingZeros(n \div 2)

RECURSIVE TrailingZeros(_)
\* the number of low-order zero bits of a # 0
TrailingZeros(a) ==
    IF Head(a) = 0 THEN 15 + TrailingZeros(Tail(a)) ELSE IntTrailingZeros(Head(a))

\* the double m * 2^e for m < 2^53
DForm(m, e) ==
    IF m = <<>> THEN [m |-> <<>>, e |-> 0]
    ELSE LET z == TrailingZeros(m) IN [m |-> WShr(m, z), e |-> e + z]

\* m * 2^e (plus a non-zero amount below one unit of m when sticky), rounded
\* to 53 significant bits: to nearest, ties to even
DRound(m, e, sticky) ==
    LET L == WBitLen(m)
    IN  IF L <= 53 THEN DForm(m, e)
        ELSE LET p    == L - 53
                 kept == WShr(m, p)
                 up   == /\ WBit(m, p - 1) = 1
                         /\ \/ WBit(kept, 0) = 1
                            \/ sticky
                            \/ WLow(m, p - 1) # <<>>
             IN  DForm(IF up THEN WAdd(kept, W(1)) ELSE kept, e + p)

\* (double)n for an integer n < 2^31: exact
DInt(n) == DForm(W(n), 0)

\* a * b, correctly rounded
DMul(a, b) == DRound(WMul(a.m, b.m), a.e + b.e, FALSE)

\* a - b for a >= b, correctly rounded
DSub(a, b) ==
    LET e == IF a.e < b.e THEN a.e ELSE b.e
    IN  DRound(WSub(WShl(a.m, a.e - e), WShl(b.m, b.e - e)), e, FALSE)

RECURSIVE DivLimb(_, _, _, _, _, _)
\* (r * 2^j + the low j bits of limb) divided by d, c bits at a time, where
\* r < d and d * 2^c <= 2^31: <<quotient, remainder>>, the quotient appended
\* to the bits of q
DivLimb(r, limb, d, c, j, q) ==
    IF j = 0 THEN <<q, r>>
    ELSE LET n == IF c < j THEN c ELSE j
             v == r * 2^n + ((limb \div 2^(j - n)) % 2^n)
         IN  DivLimb(v % d, limb, d, c, j - n, q * 2^n + (v \div d))

RECURSIVE WDivModC(_, _, _, _)
WDivModC(a, d, c, r) ==
    IF a = <<>> THEN <<<<>>, r>>
    ELSE LET s == DivLimb(r, a[Len(a)], d, c, 15, 0)
             t == WDivModC(SubSeq(a, 1, Len(a) - 1), d, c, s[2])
         IN  <<t[1] \o <<s[1]>>, t[2]>>

\* <<a div d, a mod d>> for a wide a and an integer 0 < d < 2^30
WDivMod(a, d) ==
    LET t == WDivModC(a, d, 31 - IntBitLen(d), 0) IN <<WStrip(t[1]), t[2]>>

\* a / b, correctly rounded, for a divisor whose odd part b.m is below 2^30
\* (every divisor of the driver is the double of a 32-bit integer constant).
\* The dividend is scaled so that the integer quotient has at least 55 bits.
DDiv(a, b) ==
    LET k == WInt(b.m)
        n == 55 + IntBitLen(k) - WBitLen(a.m)
        s == IF n > 0 THEN n ELSE 0
        t == WDivMod(WShl(a.m, s), k)
    IN  IF a.m = <<>> THEN a ELSE DRound(t[1], a.e - s - b.e, t[2] # 0)

\* floor(a) as an integer (below 2^31)
DFloor(a) == WInt(IF a.e >= 0 THEN WShl(a.m, a.e) ELSE WShr(a.m, 0 - a.e))

(***************************************************************************)
(* si5351.h: phase settings, register addresses, bit fields, limits.       *)
(***************************************************************************)
PH000 == 0
PH090 == 1
PH180 == 2
PH270 == 3

SI_CLK_OE     == 3
SI_CLK0_CTL   == 16
SI_CLK1_CTL   == 17
SI_CLK2_CTL   == 18
SI_SYNTH_PLLA == 26
SI_SYNTH_PLLB == 34
SI_SYNTH_MS0  == 42
SI_SYNTH_MS1  == 50
SI_SYNTH_MS2  == 58
SI_SS_EN      == 149
SI_CLK0_PHOFF == 165
SI_CLK1_PHOFF == 166
SI_PLL_RESET  == 177

SI_CLK_INT      == 64
SI_CLK_PLLB     == 32
SI_CLK_INV      == 16
SI_CLK_SRC_MS   == 12
SI_CLK_IDRV_4mA == 1

SI_VCO_LO == 400000000
SI_VCO_HI == 900000000
SI_PLL_C  == 1000000

(***************************************************************************)
(* uint32_t values.  A uint32_t is held as the integer of [-2^31, 2^31)    *)
(* congruent to it modulo 2^32, so sums and differences of magnitude below *)
(* 2^31 wrap as in C: the value is below 2^31 when the integer is >= 0,    *)
(* and is 2^32 plus the integer when it is negative (an unsigned wrap).    *)
(***************************************************************************)
\* (w >> sh) & (2^k - 1), for sh + k <= 24: \div rounds down and % is never
\* negative, so the bits of a wrapped value are those of 2^32 + w
Bits(w, sh, k) == (w \div 2^sh) % 2^k

(***************************************************************************)
(* The frequency planner, Si5351::_evaluate.                               *)
(***************************************************************************)
\* the R divider of a target frequency
RDivOf(freqHz) ==
    IF freqHz < 1000000 THEN 128
    ELSE IF freqHz < 3000000 THEN 32
    ELSE 1

\* MsiOf without line 223, the step that makes an odd divider even
MsiOfNoEven(freqHz, ri) ==
    IF freqHz < 6000000 THEN 126
    ELSE LET t0 == 700000000 \div (freqHz * ri)
             t1 == IF t0 < 4 THEN 4 ELSE t0
         IN  IF t1 > 126 THEN 126 ELSE t1

\* the even MultiSynth divider of a target frequency and its R divider
MsiOf(freqHz, ri) ==
    IF freqHz < 6000000 THEN 126
    ELSE LET t0 == 700000000 \div (freqHz * ri)
             t1 == IF t0 < 4 THEN 4 ELSE t0
             t2 == IF t1 > 126 THEN 126 ELSE t1
             t3 == IF t2 % 2 = 1 THEN t2 + 1 ELSE t2
         IN  IF t3 > 126 THEN 126 ELSE t3

\* uint64_t fvco = freqHz * msi * ri
Fvco(freqHz, msi, ri) == WMul(WMul(W(freqHz), W(msi)), W(ri))

\* double msn = ((double)msi * (double)ri * (double)freqHz) / (double)_xtal
MsnOf(msi, ri, freqHz, xtal) ==
    DDiv(DMul(DMul(DInt(msi), DInt(ri)), DInt(freqHz)), DInt(xtal))

(***************************************************************************)
(* The register encoders, Si5351::_setMSN and Si5351::_setMSI.  A bus      *)
(* transaction is [reg |-> first register, data |-> the bytes written].    *)
(***************************************************************************)
MSN_A(msn) == DFloor(msn)

MSN_B(msn) == DFloor(DMul(DSub(msn, DInt(MSN_A(msn))), DInt(SI_PLL_C)))

MSN_tmp(B) == DFloor(DDiv(DInt(128 * B), DInt(SI_PLL_C)))

MSN_P1(A, tmp) == 128 * A + tmp - 512

MSN_P2(B, tmp) == 128 * B - SI_PLL_C * tmp

_setMSN(pllIdx, msn) ==
    LET A  == MSN_A(msn)
        B  == MSN_B(msn)
        tmp == MSN_tmp(B)
        P1 == MSN_P1(A, tmp)
        P2 == MSN_P2(B, tmp)
        P3 == SI_PLL_C
    IN  [op   |-> "W",
         reg  |-> IF pllIdx = 0 THEN SI_SYNTH_PLLA ELSE SI_SYNTH_PLLB,
         data |-> << Bits(P3, 8, 8),
                     Bits(P3, 0, 8),
                     Bits(P1, 16, 2),
                     Bits(P1, 8, 8),
                     Bits(P1, 0, 8),
                     16 * Bits(P3, 16, 4) + Bits(P2, 16, 4),
                     Bits(P2, 8, 8),
                     Bits(P2, 0, 8) >>]

\* buf[] of _setMSI: integer mode, P2 = 0, P3 = 1; the three R-divider bits sit
\* above P1[17:16] in buf[2] (disjoint bit fields, so | is +)
_setMSI(clkIdx, msiEven, rDivLog2) ==
    LET P1    == 128 * msiEven - 512
        Rbits == (rDivLog2 % 8) * 16
    IN  [op   |-> "W",
         reg  |-> IF clkIdx = 0 THEN SI_SYNTH_MS0
                  ELSE IF clkIdx = 1 THEN SI_SYNTH_MS1 ELSE SI_SYNTH_MS2,
         data |-> << 0, 1, Bits(P1, 16, 2) + Rbits, Bits(P1, 8, 8), Bits(P1, 0, 8),
                     0, 0, 0 >>]

_rDivToCode(r) ==
    CASE r = 1   -> 0
      [] r = 2   -> 1
      [] r = 4   -> 2
      [] r = 8   -> 3
      [] r = 16  -> 4
      [] r = 32  -> 5
      [] r = 64  -> 6
      [] r = 128 -> 7
      [] OTHER   -> 0

(***************************************************************************)
(* The driver.                                                             *)
(***************************************************************************)
VARIABLES
    begun,      \* begin() has run: _vfo holds no determinate value before it
    _vfo,       \* vfo_t _vfo[2]
    oe,         \* the chip's SI_CLK_OE register, the only one the driver reads
    bus,        \* the I2C transactions of the most recent public call, in order
    unlatched,  \* a PLL or MultiSynth divider register was written after the
                \* most recent write of SI_PLL_RESET
    last        \* the most recent public call, see Call

vars == <<begun, _vfo, oe, bus, unlatched, last>>

\* Si5351 vfo(25000000UL), the default of the constructor
_xtal == 25000000

\* The arguments the calls are tried with.  Indices above 1 and phases above 3
\* are out of range.  Frequencies are in Hz; the model's integers end at
\* 2^31 - 1, half the range of the uint32_t argument.
MaxVfoIdx == 2
MaxPhaseArg == 4
VfoIdx == 0..MaxVfoIdx
PhaseArgs == 0..MaxPhaseArg
Freqs == {500000, 7074000, 10000000}
PlanFreqs == Freqs \cup {5000, 1000000, 3000000, 9000000, 200000000}

Vfo(freq, phase, ri, msi, msn) ==
    [freq |-> freq, phase |-> phase, ri |-> ri, msi |-> msi, msn |-> msn]

\* a public call: planned says that it ran the planner past its first line,
\* again that it is a setFreq with the arguments of a setFreq just before it
Call(op, idx, arg, planned, again) ==
    [op |-> op, idx |-> idx, arg |-> arg, planned |-> planned, again |-> again]

\* one register write, _wr, and one burst of writes, _wrBulk
_wr(reg, val) == [op |-> "W", reg |-> reg, data |-> <<val>>]

\* one register read, _rd: the byte read when Wire.available(), else 0xFF; the
\* transaction records the byte received, if any
ReadResults(val) == {[op |-> "R", reg |-> SI_CLK_OE, data |-> <<val>>],
                     [op |-> "R", reg |-> SI_CLK_OE, data |-> <<>>]}

_rd(t) == IF t.data # <<>> THEN t.data[1] ELSE 255

\* the transactions of resetPLL()
resetPLL == << _wr(SI_PLL_RESET, 160) >>

\* enable with VFO0's mask widened from 0x03 to 0x07
enableWideMask(rdOe, vfoIdx, en) ==
    IF vfoIdx = 0
    THEN IF en THEN rdOe - (rdOe % 8) ELSE rdOe - (rdOe % 8) + 7
    ELSE IF en THEN rdOe - 4 * ((rdOe \div 4) % 2)
               ELSE rdOe + 4 * (1 - ((rdOe \div 4) % 2))

\* the byte enable() writes back, given the byte oe it read
enable(rdOe, vfoIdx, en) ==
    IF vfoIdx = 0
    THEN IF en THEN rdOe - (rdOe % 4) ELSE rdOe - (rdOe % 4) + 3
    ELSE IF en THEN rdOe - 4 * ((rdOe \div 4) % 2)
               ELSE rdOe + 4 * (1 - ((rdOe \div 4) % 2))

\* _vfo after setPhase(vfoIdx, phase)
setPhase(v, vfoIdx, phase) ==
    IF vfoIdx # 0 \/ phase > 3 THEN v
    ELSE [v EXCEPT ![0].phase = phase]

\* Plans without the comparison against the stored frequency
PlansAlways(v, vfoIdx, freqHz) == ~(vfoIdx > 1)

\* whether _evaluate(vfoIdx, freqHz) gets past its first line
Plans(v, vfoIdx, freqHz) == ~(vfoIdx > 1 \/ v[vfoIdx].freq = freqHz)

\* _vfo after _evaluate(vfoIdx, freqHz)
_evaluate(v, vfoIdx, freqHz) ==
    IF ~Plans(v, vfoIdx, freqHz) THEN v
    ELSE LET ri  == RDivOf(freqHz)
             msi == MsiOf(freqHz, ri)
             msn == MsnOf(msi, ri, freqHz, _xtal)
         IN  [v EXCEPT ![vfoIdx] = Vfo(freqHz, @.phase, ri, msi, msn)]

\* _vfo after setFreq(vfoIdx, freqHz)
setFreq(v, vfoIdx, freqHz) ==
    IF vfoIdx > 1 THEN v ELSE _evaluate(v, vfoIdx, freqHz)

\* Clk1Phoff with the offset applied for 90 degrees only
Clk1PhoffOnly090(phase, msi) == IF phase = PH090 THEN msi ELSE 0

\* the byte update(0) writes to SI_CLK1_PHOFF
Clk1Phoff(phase, msi) == IF phase = PH090 \/ phase = PH270 THEN msi ELSE 0

\* clk0ctl and clk1ctl of update(0); the bit fields are disjoint, so | is +
Clk0Ctl == SI_CLK_SRC_MS + SI_CLK_INT + SI_CLK_IDRV_4mA

Clk1Ctl(phase) ==
    SI_CLK_SRC_MS + SI_CLK_INT + SI_CLK_IDRV_4mA
    + (IF phase = PH180 \/ phase = PH270 THEN SI_CLK_INV ELSE 0)

\* clk2ctl of update(1)
Clk2Ctl == SI_CLK_SRC_MS + SI_CLK_INT + SI_CLK_PLLB + SI_CLK_IDRV_4mA

\* the transactions of update(vfoIdx), vfoIdx <= 1, before its resetPLL()
updateWrites(v, vfoIdx) ==
    IF vfoIdx = 0
    THEN LET rcode == _rDivToCode(v[0].ri)
         IN  << _setMSN(0, v[0].msn),
                _setMSI(0, v[0].msi, rcode),
                _setMSI(1, v[0].msi, rcode),
                _wr(SI_CLK0_PHOFF, 0),
                _wr(SI_CLK1_PHOFF, Clk1Phoff(v[0].phase, v[0].msi)),
                _wr(SI_CLK0_CTL, Clk0Ctl),
                _wr(SI_CLK1_CTL, Clk1Ctl(v[0].phase)) >>
    ELSE LET rcode == _rDivToCode(v[1].ri)
         IN  << _setMSN(1, v[1].msn),
                _setMSI(2, v[1].msi, rcode),
                _wr(SI_CLK2_CTL, Clk2Ctl) >>

\* update with the reset issued before the writes instead of after them
updateResetFirst(v, vfoIdx) ==
    IF vfoIdx > 1 THEN <<>> ELSE resetPLL \o updateWrites(v, vfoIdx)

\* the transactions of update(vfoIdx)
update(v, vfoIdx) ==
    IF vfoIdx > 1 THEN <<>> ELSE updateWrites(v, vfoIdx) \o resetPLL

\* _vfo[0], _vfo[1] as begin() sets them
BeginVfo ==
    [i \in 0..1 |-> IF i = 0 THEN Vfo(7074000, PH270, 1, 106, DInt(30))
                             ELSE Vfo(10000000, PH000, 1, 76, DInt(30))]

\* the registers a transaction writes
Written(t) == IF t.op = "W" THEN t.reg .. (t.reg + Len(t.data) - 1) ELSE {}

\* the PLLA, PLLB, MS0, MS1, MS2 parameter registers
DividerRegs == SI_SYNTH_PLLA .. (SI_SYNTH_MS2 + 7)

RECURSIVE Unlatched(_, _)
\* unlatched, after the transactions ts
Unlatched(u, ts) ==
    IF ts = <<>> THEN u
    ELSE Unlatched(IF SI_PLL_RESET \in Written(Head(ts)) THEN FALSE
                   ELSE IF Written(Head(ts)) \cap DividerRegs # {} THEN TRUE
                   ELSE u,
                   Tail(ts))

\* what begin() writes before it turns to the output enables
BeginWrites ==
    << _wr(SI_SS_EN, 0),
       _wr(SI_CLK0_CTL, SI_CLK_SRC_MS + SI_CLK_IDRV_4mA),
       _wr(SI_CLK1_CTL, SI_CLK_SRC_MS + SI_CLK_IDRV_4mA),
       _wr(SI_CLK2_CTL, SI_CLK_SRC_MS + SI_CLK_PLLB + SI_CLK_IDRV_4mA) >>
    \o update(BeginVfo, 0)
    \o update(BeginVfo, 1)

Init ==
    /\ begun = FALSE
    /\ _vfo = [i \in 0..1 |-> Vfo(0, 0, 0, 0, DInt(0))]
    /\ oe = 0
    /\ bus = <<>>
    /\ unlatched = FALSE
    /\ last = Call("new", 0, 0, FALSE, FALSE)

Begin ==
    \E r1 \in ReadResults(oe) :
      LET w1 == enable(_rd(r1), 0, TRUE)
      IN  \E r2 \in ReadResults(w1) :
            LET w2 == enable(_rd(r2), 1, FALSE)
                ts == BeginWrites
                      \o << r1, _wr(SI_CLK_OE, w1), r2, _wr(SI_CLK_OE, w2) >>
            IN  /\ begun' = TRUE
                /\ _vfo' = BeginVfo
                /\ oe' = w2
                /\ bus' = ts
                /\ unlatched' = Unlatched(unlatched, ts)
                /\ last' = Call("begin", 0, 0, FALSE, FALSE)

ResetPLL ==
    /\ begun
    /\ bus' = resetPLL
    /\ unlatched' = Unlatched(unlatched, resetPLL)
    /\ last' = Call("resetPLL", 0, 0, FALSE, FALSE)
    /\ UNCHANGED <<begun, _vfo, oe>>

Enable(vfoIdx, en) ==
    /\ begun
    /\ \E r \in ReadResults(oe) :
         LET w == enable(_rd(r), vfoIdx, en)
         IN  /\ oe' = w
             /\ bus' = << r, _wr(SI_CLK_OE, w) >>
    /\ unlatched' = Unlatched(unlatched, bus')
    /\ last' = Call("enable", vfoIdx, IF en THEN 1 ELSE 0, FALSE, FALSE)
    /\ UNCHANGED <<begun, _vfo>>

SetPhase(vfoIdx, phase) ==
    /\ begun
    /\ _vfo' = setPhase(_vfo, vfoIdx, phase)
    /\ bus' = <<>>
    /\ last' = Call("setPhase", vfoIdx, phase, FALSE, FALSE)
    /\ UNCHANGED <<begun, oe, unlatched>>

SetFreq(vfoIdx, freqHz) ==
    /\ begun
    /\ _vfo' = setFreq(_vfo, vfoIdx, freqHz)
    /\ bus' = <<>>
    /\ last' = Call("setFreq", vfoIdx, freqHz, Plans(_vfo, vfoIdx, freqHz),
                     last.op = "setFreq" /\ last.idx = vfoIdx
                         /\ last.arg = freqHz)
    /\ UNCHANGED <<begun, oe, unlatched>>

Update(vfoIdx) ==
    /\ begun
    /\ bus' = update(_vfo, vfoIdx)
    /\ unlatched' = Unlatched(unlatched, bus')
    /\ last' = Call("update", vfoIdx, 0, FALSE, FALSE)
    /\ UNCHANGED <<begun, _vfo, oe>>

Next ==
    \/ Begin
    \/ ResetPLL
    \/ \E i \in VfoIdx, en \in BOOLEAN : Enable(i, en)
    \/ \E i \in VfoIdx, p \in PhaseArgs : SetPhase(i, p)
    \/ \E i \in VfoIdx, f \in Freqs : SetFreq(i, f)
    \/ \E i \in VfoIdx : Update(i)

Spec == Init /\ [][Next]_vars

\* bring-up, tuning and apply only, over the wider set of frequencies
NextPlan ==
    \/ Begin
    \/ \E i \in VfoIdx, f \in PlanFreqs : SetFreq(i, f)
    \/ \E i \in VfoIdx : Update(i)

SpecPlan == Init /\ [][NextPlan]_vars

-----------------------------------------------------------------------------
\* What the properties read off the state.

RECURSIVE RegAfter(_, _)
\* the byte the transactions ts leave in register r, -1 if none writes it
RegAfter(ts, r) ==
    IF ts = <<>> THEN 0 - 1
    ELSE LET t == ts[Len(ts)]
         IN  IF r \in Written(t) THEN t.data[r - t.reg + 1]
             ELSE RegAfter(SubSeq(ts, 1, Len(ts) - 1), r)

\* the inversion bit of a clock control byte
Inverted(ctl) == (ctl \div SI_CLK_INV) % 2 = 1

\* the output-enable bits of a VFO within the byte val: bits 0,1 for VFO0,
\* bit 2 for VFO1
OwnedBits(val, vfoIdx) == IF vfoIdx = 0 THEN val % 4 ELSE (val \div 4) % 2

\* the byte val with the output-enable bits of the VFO cleared
OtherBits(val, vfoIdx) == val - (IF vfoIdx = 0 THEN 1 ELSE 4) * OwnedBits(val, vfoIdx)

\* P3, P1, P2 decoded from an 8-byte PLL register image
DecP3(d) == d[1] * 256 + d[2] + (d[6] \div 16) * 65536
DecP1(d) == (d[3] % 4) * 65536 + d[4] * 256 + d[5]
DecP2(d) == (d[6] % 16) * 65536 + d[7] * 256 + d[8]

\* |msn * xtal - msi * ri * freq| <= xtal / 1000000 for the record v, i.e. msn
\* is within 1/1000000 of msi * ri * freq / xtal; both sides are scaled by
\* 2^s so that the double msn = m * 2^e becomes an integer
MsnWithinResolution(v) ==
    LET s   == IF v.msn.e < 0 THEN 0 - v.msn.e ELSE 0
        lhs == WMul(WShl(v.msn.m, v.msn.e + s), W(_xtal))
        rhs == WShl(Fvco(v.freq, v.msi, v.ri), s)
        d   == IF WLe(lhs, rhs) THEN WSub(rhs, lhs) ELSE WSub(lhs, rhs)
    IN  WLe(WMul(d, W(SI_PLL_C)), WShl(W(_xtal), s))

\* a call that the interface description makes a no-op
InvalidCall(c) ==
    \/ c.op \in {"enable", "setFreq", "update"} /\ c.idx > 1
    \/ c.op = "setPhase" /\ (c.idx # 0 \/ c.arg > 3)

-----------------------------------------------------------------------------
\* C1: after a setFreq(i, f) with i in {0,1} that ran the planner, the stored
\* dividers of VFO i satisfy 400,000,000 <= f * ri * msi <= 900,000,000.
C1_VcoInRange ==
    (last.op = "setFreq" /\ last.planned) =>
        LET v    == _vfo[last.idx]
            fvco == Fvco(v.freq, v.msi, v.ri)
        IN  WLe(W(SI_VCO_LO), fvco) /\ WLe(fvco, W(SI_VCO_HI))

\* C2: in every state after begin(), for both VFOs the stored msn times the
\* crystal frequency equals msi * ri * freq to within the resolution of the
\* denominator 1,000,000.
C2_MsnConsistent ==
    begun => \A i \in 0..1 : MsnWithinResolution(_vfo[i])

\* C3: once setFreq(i, f) with i in {0,1} has returned, VFO i holds the
\* planner's dividers for f: ri by band, msi = 126 below 6 MHz and otherwise
\* floor(700,000,000 / (f * ri)) clamped to [4,126] and made even.
C3_SetFreqStoresPlan ==
    (last.op = "setFreq" /\ last.idx \in 0..1) =>
        LET v == _vfo[last.idx]
        IN  /\ v.ri = RDivOf(last.arg)
            /\ v.msi = MsiOf(last.arg, RDivOf(last.arg))

\* C4: the 8-byte PLL image that update(i) writes decodes to P3 = 1,000,000
\* and to the a and b that _setMSN took from msn, with
\* P1 = 128a + floor(128b/c) - 512 formed without underflow and held in 18
\* bits, and P2 held in 20 bits.
C4_PllRoundTrip ==
    (last.op = "update" /\ last.idx \in 0..1) =>
        LET d   == bus[1].data
            msn == _vfo[last.idx].msn
            A   == MSN_A(msn)
            B   == MSN_B(msn)
            tmp == (128 * B) \div SI_PLL_C
            p1  == DecP1(d)
            p2  == DecP2(d)
            p3  == DecP3(d)
        IN  /\ p3 = SI_PLL_C
            /\ 128 * A + tmp >= 512
            /\ p1 = 128 * A + tmp - 512
            /\ p2 = 128 * B - SI_PLL_C * tmp
            /\ (p1 + 512) \div 128 = A
            /\ (p2 + p3 * ((p1 + 512) % 128)) \div 128 = B

\* C5: a call of enable, setFreq or update with an index outside {0,1}, and a
\* call of setPhase with an index other than 0 or a phase above 3, leaves both
\* VFO records and the output-enable register as they were and writes
\* nothing to the bus.
C5_InvalidIsNoOp ==
    [][InvalidCall(last') =>
          /\ _vfo' = _vfo
          /\ oe' = oe
          /\ \A k \in 1..Len(bus') : bus'[k].op # "W"]_vars

\* C6: after update(0) the CLK0 phase offset is 0 and CLK0 is not inverted;
\* the CLK1 phase offset is VFO0's msi for 90 and 270 degrees and 0 for 0 and
\* 180 degrees; CLK1 is inverted exactly for 180 and 270 degrees.
C6_QuadratureMapping ==
    (last.op = "update" /\ last.idx = 0) =>
        LET ph == _vfo[0].phase
        IN  /\ RegAfter(bus, SI_CLK0_PHOFF) = 0
            /\ RegAfter(bus, SI_CLK0_CTL) >= 0
            /\ ~Inverted(RegAfter(bus, SI_CLK0_CTL))
            /\ RegAfter(bus, SI_CLK1_PHOFF)
                   = (IF ph \in {PH090, PH270} THEN _vfo[0].msi ELSE 0)
            /\ RegAfter(bus, SI_CLK1_CTL) >= 0
            /\ Inverted(RegAfter(bus, SI_CLK1_CTL)) <=> ph \in {PH180, PH270}

\* update(0) ran at 90 degrees after a retune to 500 kHz: CLK1 is offset by
\* msi = 126 and not inverted
C6_Witness ==
    /\ last.op = "update" /\ last.idx = 0
    /\ _vfo[0].phase = PH090 /\ _vfo[0].freq = 500000
    /\ RegAfter(bus, SI_CLK1_PHOFF) = 126
    /\ ~Inverted(RegAfter(bus, SI_CLK1_CTL))

\* C7 as stated: enable(i, en), i in {0,1}, writes back the byte it read with
\* VFO i's bits cleared (en) or set (not en) and the rest as read; the same
\* call twice in a row leaves the register as after the first; and the other
\* VFO's bits never change.
C7_EnableOwnedBitsOnly ==
    [][(last'.op = "enable" /\ last'.idx \in 0..1) =>
          LET i  == last'.idx
              rd == _rd(bus'[1])
              wr == bus'[2].data[1]
          IN  /\ bus'[2] = _wr(SI_CLK_OE, wr)
              /\ oe' = wr
              /\ OtherBits(wr, i) = OtherBits(rd, i)
              /\ OwnedBits(wr, i)
                     = (IF last'.arg = 1 THEN 0 ELSE IF i = 0 THEN 3 ELSE 1)
              /\ (last = last' => oe' = oe)
              /\ OwnedBits(oe', 1 - i) = OwnedBits(oe, 1 - i)]_vars

\* C7 amended: the write-back is as stated, where the byte read is 0xFF when
\* the read returns no data; the repeated call leaves the register alone,
\* and the other VFO's bits stay, when the call's read returns the register.
C7_EnableOwnedBitsWhenRead ==
    [][(last'.op = "enable" /\ last'.idx \in 0..1) =>
          LET i  == last'.idx
              rd == _rd(bus'[1])
              wr == bus'[2].data[1]
          IN  /\ bus'[2] = _wr(SI_CLK_OE, wr)
              /\ oe' = wr
              /\ OtherBits(wr, i) = OtherBits(rd, i)
              /\ OwnedBits(wr, i)
                     = (IF last'.arg = 1 THEN 0 ELSE IF i = 0 THEN 3 ELSE 1)
              /\ bus'[1].data # <<>> =>
                    /\ (last = last' => oe' = oe)
                    /\ OwnedBits(oe', 1 - i) = OwnedBits(oe, 1 - i)]_vars

\* enable(1, false) has read a register whose bit 2 was already set, with
\* CLK0 and CLK1 enabled, and has written the same byte back
C7_Witness ==
    /\ last.op = "enable" /\ last.idx = 1 /\ last.arg = 0
    /\ bus[1].data = <<oe>>
    /\ OwnedBits(oe, 1) = 1 /\ OwnedBits(oe, 0) = 0

\* C8: a setFreq(i, f), i in {0,1}, that directly follows a setFreq(i, f)
\* does not run the planner and leaves the VFO records as they were, so
\* update(i) issues the same writes as before it; setFreq writes nothing to
\* the bus.
C8_SetFreqIdempotent ==
    [][last'.op = "setFreq" =>
          /\ bus' = <<>>
          /\ (last'.again /\ last'.idx \in 0..1) =>
                 /\ ~last'.planned
                 /\ _vfo' = _vfo
                 /\ update(_vfo', last'.idx) = update(_vfo, last'.idx)]_vars

\* the second of two setFreq(0, 500000) in a row has returned without
\* planning, with the plan of the first in VFO0
C8_Witness ==
    /\ last = Call("setFreq", 0, 500000, FALSE, TRUE)
    /\ _vfo[0].freq = 500000 /\ _vfo[0].ri = 128 /\ _vfo[0].msi = 126
    /\ bus = <<>>

\* C9: in every state after begin(), for both VFOs msi is even and in [4,126].
C9_MsiEvenInRange ==
    begun => \A i \in 0..1 : _vfo[i].msi % 2 = 0 /\ _vfo[i].msi \in 4..126

\* the planner has run for 9 MHz, whose quotient 77 is odd, and for 200 MHz,
\* whose quotient 3 is below 4
C9_Witness ==
    /\ last.op = "setFreq" /\ last.planned
    /\ _vfo[0].freq = 9000000 /\ _vfo[0].msi = 78
    /\ _vfo[1].freq = 200000000 /\ _vfo[1].msi = 4

\* C10: update(i), i in {0,1}, ends with the write of 0xA0 to register 177,
\* all its other transactions being writes to other registers before it; and
\* between calls no PLL or MultiSynth parameter register has been written
\* since the latest write to register 177.
C10_ResetAfterWrite ==
    /\ (last.op = "update" /\ last.idx \in 0..1) =>
          /\ bus # <<>>
          /\ bus[Len(bus)] = _wr(SI_PLL_RESET, 160)
          /\ \A k \in 1..(Len(bus) - 1) :
                bus[k].op = "W" /\ SI_PLL_RESET \notin Written(bus[k])
          /\ \E k \in 1..(Len(bus) - 1) : Written(bus[k]) \subseteq DividerRegs
    /\ ~unlatched

\* update(1) has written PLLB's and MS2's parameters for 500 kHz and then
\* the reset
C10_Witness ==
    /\ last.op = "update" /\ last.idx = 1
    /\ _vfo[1].freq = 500000
    /\ Written(bus[1]) = SI_SYNTH_PLLB .. (SI_SYNTH_PLLB + 7)
    /\ Written(bus[2]) = SI_SYNTH_MS2 .. (SI_SYNTH_MS2 + 7)
    /\ bus[Len(bus)].reg = SI_PLL_RESET
    /\ ~unlatched

=============================================================================
